---------------------------- MODULE Spec2Model ----------------------------
(***************************************************************************)
(* Model of the per-session relay of src/src/index.ts (class               *)
(* ConversationDO): one Durable Object instance, the client ("worker")     *)
(* WebSocket it accepts, the upstream (OpenAI) WebSocket it dials, the     *)
(* pending-message queue, the usage meter and the usage flush.             *)
(*                                                                         *)
(* Handlers run to completion on the instance's single thread, so every    *)
(* handler is one atomic action; the two awaited fetches (verification in  *)
(* handleSession, the POST of dumpUsageToArcane) split their functions in  *)
(* a part before and a part after the await.                               *)
(*                                                                         *)
(* Numbers: the code keeps cost as a double, tokens*(rate/1000).  The      *)
(* model keeps cost multiplied by PerThousand, i.e. tokens*rate, and       *)
(* multiplies feature.usage and feature.limit by PerThousand in the quota  *)
(* comparison, so that all values are integers (exact arithmetic; double   *)
(* rounding is not modelled).  Rates, usage and limit are in tenths of the *)
(* currency unit, so the defaults 0.1 and 0.2 of the code are 1 and 2.     *)
(* NaN (arithmetic on undefined) is the value NaN below.                   *)
(***************************************************************************)
EXTENDS Integers, Sequences, FiniteSets, Bags, TLC

\* ------------------------------------------------------------- bounds
\* upgrade requests one instance may receive (connections are numbered)
MaxConn == 2
\* client messages delivered to the instance over a run
MaxClientMsgs == 2
\* upstream messages delivered to the instance over a run
MaxUpMsgs == 2

\* the divisor of updateUsage's rate (costPerToken / 1000)
PerThousand == 1000

Conns == 1 .. MaxConn

\* ------------------------------------------------------------- values
NaN == -1

Add(a, b) == IF a = NaN \/ b = NaN THEN NaN ELSE a + b

Mul(a, b) == IF a = NaN \/ b = NaN THEN NaN ELSE a * b

\* a >= b of the language: false when either side is NaN
Geq(a, b) == a # NaN /\ b # NaN /\ a >= b

Null == <<"null", 0>>

W(c) == <<"w", c>>

O(c) == <<"o", c>>

SockIds == {W(c) : c \in Conns} \cup {O(c) : c \in Conns}

NoSocket == [st |-> "NONE", wasOpen |-> FALSE, log |-> <<>>]

NoError == [type |-> "none", errorType |-> "", message |-> ""]

ErrorFrame(e) == [type |-> "error", errorType |-> e.errorType, message |-> e.message]

UnknownError == [type |-> "clientError", errorType |-> "Unknown", message |-> "Unexpected Error occured"]

UsageLimitError == [type |-> "clientError", errorType |-> "UsageLimitReached", message |-> "Usage limit reached."]

ZeroUsage == [total_tokens |-> 0, input_tokens |-> 0, output_tokens |-> 0,
              cost |-> [input |-> 0, output |-> 0]]

DefaultFeature == [usage |-> 0, limit |-> 0, costPerToken |-> [input |-> 1, output |-> 2]]

\* ------------------------------------------------------------- inputs
\* payloads of client messages: the empty text frame and a non-empty one
\* (a binary frame, an ArrayBuffer, is truthy like the non-empty text)
Payloads == {"", "x"}

\* entitlement snapshots a successful verification may return
\* (limit 0.1 at rates 20 and 20 per thousand tokens: the second delta below
\* reaches the limit alone, the first does not)
Features == {[usage |-> 0, limit |-> 1, costPerToken |-> [input |-> 200, output |-> 200]]}

\* success bodies of the verification call: with and without
\* data.realtimeVoiceChat
OkBodies == {[has |-> TRUE, realtimeVoiceChat |-> f] : f \in Features}
            \cup {[has |-> FALSE, realtimeVoiceChat |-> DefaultFeature]}

\* failure bodies of the verification call: with and without data.type
FailBodies == {[typed |-> TRUE, type |-> "InvalidToken", message |-> "token expired"],
               [typed |-> FALSE, type |-> "", message |-> ""]}

Deltas == {[total_tokens |-> 3, input_tokens |-> 1, output_tokens |-> 2],
           [total_tokens |-> 5, input_tokens |-> 4, output_tokens |-> 1]}

NoDelta == [total_tokens |-> 0, input_tokens |-> 0, output_tokens |-> 0]

UndefDelta == [total_tokens |-> NaN, input_tokens |-> NaN, output_tokens |-> NaN]

Undefined == "<undefined>"

\* upstream messages, by what JSON.parse and the switch make of them:
\*   unparseable      the body is not JSON (or is binary)
\*   other            JSON with a type the switch does not name
\*   done             response.done with response.usage = d
\*   done_noresponse  response.done without response (or without usage)
\*   done_emptyusage  response.done with response.usage = {}
\*   user / assistant the two transcript kinds with transcript = t
\*   user_notranscript  a transcript kind without a transcript field
UpMsgs ==
    {[type |-> "upstream", kind |-> k, d |-> NoDelta, t |-> ""] :
        k \in {"unparseable", "other", "done_noresponse", "done_emptyusage",
               "user_notranscript"}}
    \cup {[type |-> "upstream", kind |-> "done", d |-> d, t |-> ""] : d \in Deltas}
    \cup {[type |-> "upstream", kind |-> k, d |-> NoDelta, t |-> "hi"] :
             k \in {"user", "assistant"}}

VARIABLES
    pc,             \* per connection: where its handleSession is
    sock,           \* every WebSocket: readyState, and the calls made on it
    workerSocket,   \* this.workerSocket
    openAIClient,   \* this.openAIClient
    messageQueue,   \* this.messageQueue
    usageOpenAI,    \* this.usageOpenAI
    conversations,  \* this.conversations
    feature,        \* this.feature
    inflight,       \* the POSTs of dumpUsageToArcane awaiting their response
    inLog,          \* history: the client messages delivered, in order
    nUp,            \* history: the number of upstream messages delivered
    dumpCalls,      \* history: the number of calls of dumpUsageToArcane
    recorded,       \* history: the deltas updateUsage took since the last reset
    verdict,        \* history: per connection, the answer of its verification call
    active,         \* history: the connections whose upstream opened to an open client
    last,           \* history: the event handled last, with its input
    sendOnClosed    \* the runtime: what send() does on a closing or closed socket,
                    \* once a send has met one

vars == <<pc, sock, workerSocket, openAIClient, messageQueue, usageOpenAI,
          conversations, feature, inflight, inLog, nUp, dumpCalls, recorded,
          verdict, active, last, sendOnClosed>>

\* ------------------------------------------------------------- WebSocket
\* send() on a socket that is not open: on a connecting socket it throws; on
\* a closing or closed one it discards the data (the WebSocket standard) or
\* throws (server runtimes), the same way for the whole run
SendThrows(st, rt) ==
    st = "CONNECTING" \/ (st \in {"CLOSING", "CLOSED"} /\ rt = "throw")

\* the runtimes the run so far is consistent with
Runtimes == IF sendOnClosed = "unobserved" THEN {"throw", "discard"} ELSE {sendOnClosed}

\* the runtime as known after a send that met readyState st under runtime rt
Observed(st, rt) == IF st \in {"CLOSING", "CLOSED"} THEN rt ELSE sendOnClosed

\* one call on a socket, as the log keeps it: the operation, the readyState
\* it met, whether it threw, and the data of a send
Call(op, st, threw, data) == [op |-> op, st |-> st, threw |-> threw, data |-> data]

\* send(): the call is logged
SockSend(s, data, rt) ==
    [s EXCEPT !.log = Append(@, Call("send", s.st, SendThrows(s.st, rt), data))]

\* close(): starts the closing handshake of an open socket
SockClose(s) ==
    [s EXCEPT !.st = IF s.st \in {"OPEN", "CONNECTING"} THEN "CLOSING" ELSE s.st,
              !.log = Append(@, Call("close", s.st, FALSE, NoError))]

\* JavaScript truthiness of a queued payload
Truthy(data) == data # ""

NoArg == [type |-> "none", kind |-> "", d |-> NoDelta, t |-> ""]

Event(a, c, k, arg) == [act |-> a, c |-> c, kind |-> k, arg |-> arg]

NoVerdict == [res |-> "none", typed |-> FALSE, type |-> "", message |-> ""]


\* ------------------------------------------------------------- usage meter
\* updateUsage with each cost taken from the delta instead of the running sum
updateUsageCostOfDelta(u, f, d) ==
    [total_tokens |-> Add(u.total_tokens, d.total_tokens),
     input_tokens |-> Add(u.input_tokens, d.input_tokens),
     output_tokens |-> Add(u.output_tokens, d.output_tokens),
     cost |-> [input |-> Mul(d.input_tokens, f.costPerToken.input),
               output |-> Mul(d.output_tokens, f.costPerToken.output)]]

updateUsage(u, f, d) ==
    [total_tokens |-> Add(u.total_tokens, d.total_tokens),
     input_tokens |-> Add(u.input_tokens, d.input_tokens),
     output_tokens |-> Add(u.output_tokens, d.output_tokens),
     cost |-> [input |-> Mul(Add(u.input_tokens, d.input_tokens), f.costPerToken.input),
               output |-> Mul(Add(u.output_tokens, d.output_tokens), f.costPerToken.output)]]

isUsageLimitReached(u, f) ==
    Geq(Add(Add(u.cost.input, u.cost.output), PerThousand * f.usage),
        PerThousand * f.limit)

\* dumpUsageToArcane up to its await: nothing with no token recorded, else
\* the POST is issued with the counters of this moment as its body
dumpUsageToArcane(u, infl) ==
    IF u.total_tokens = 0
    THEN infl
    ELSE Append(infl, [input_tokens |-> u.input_tokens, output_tokens |-> u.output_tokens])

\* ------------------------------------------------------------- close routine
\* sendMessageAndClose with the close left out whenever a flush request was
\* issued (the close waiting for the flush)
sendMessageAndCloseAfterFlush(s, id, e) ==
    \E rt \in Runtimes :
        LET framed == IF e = NoError THEN s[id] ELSE SockSend(s[id], ErrorFrame(e), rt)
            thrown == e # NoError /\ SendThrows(s[id].st, rt)
        IN  /\ sendOnClosed' = IF e = NoError THEN sendOnClosed ELSE Observed(s[id].st, rt)
            /\ IF thrown
               THEN /\ sock' = [s EXCEPT ![id] = framed]
                    /\ UNCHANGED <<inflight, dumpCalls>>
               ELSE /\ sock' = [s EXCEPT ![id] = IF usageOpenAI.total_tokens = 0
                                                 THEN SockClose(framed) ELSE framed]
                    /\ inflight' = dumpUsageToArcane(usageOpenAI, inflight)
                    /\ dumpCalls' = dumpCalls + 1

\* sendMessageAndClose(socket, logMessage, clientError) on the sockets s:
\* the error frame when there is one, the usage flush, the close.  A send
\* that throws ends the handler there.
sendMessageAndClose(s, id, e) ==
    \E rt \in Runtimes :
        LET framed == IF e = NoError THEN s[id] ELSE SockSend(s[id], ErrorFrame(e), rt)
            thrown == e # NoError /\ SendThrows(s[id].st, rt)
        IN  /\ sendOnClosed' = IF e = NoError THEN sendOnClosed ELSE Observed(s[id].st, rt)
            /\ IF thrown
               THEN /\ sock' = [s EXCEPT ![id] = framed]
                    /\ UNCHANGED <<inflight, dumpCalls>>
               ELSE /\ sock' = [s EXCEPT ![id] = SockClose(framed)]
                    /\ inflight' = dumpUsageToArcane(usageOpenAI, inflight)
                    /\ dumpCalls' = dumpCalls + 1

\* ------------------------------------------------------------- initial state
Init ==
    /\ pc = [c \in Conns |-> "idle"]
    /\ sock = [i \in SockIds |-> NoSocket]
    /\ workerSocket = Null
    /\ openAIClient = Null
    /\ messageQueue = <<>>
    /\ usageOpenAI = ZeroUsage
    /\ conversations = <<>>
    /\ feature = DefaultFeature
    /\ inflight = <<>>
    /\ inLog = <<>>
    /\ nUp = 0
    /\ dumpCalls = 0
    /\ recorded = EmptyBag
    /\ verdict = [c \in Conns |-> NoVerdict]
    /\ active = {}
    /\ last = Event("init", 0, "", NoArg)
    /\ sendOnClosed = "unobserved"

\* ------------------------------------------------------------- handleSession
\* fetch and handleSession up to the awaited verification call: the server
\* end of the pair is accepted and becomes this.workerSocket
handleSessionStart(c) ==
    /\ pc[c] = "idle"
    /\ \A b \in Conns : b < c => pc[b] # "idle"
    /\ pc' = [pc EXCEPT ![c] = "verifying"]
    /\ sock' = [sock EXCEPT ![W(c)] = [st |-> "OPEN", wasOpen |-> TRUE, log |-> <<>>]]
    /\ workerSocket' = W(c)
    /\ last' = Event("fetch", c, "", NoArg)
    /\ UNCHANGED <<openAIClient, messageQueue, usageOpenAI, conversations, feature,
                   inflight, inLog, nUp, dumpCalls, recorded, verdict, active, sendOnClosed>>

\* connectToOpenAI: a new connecting socket with the three listeners
connectToOpenAI(s, c) ==
    [s EXCEPT ![O(c)] = [st |-> "CONNECTING", wasOpen |-> FALSE, log |-> <<>>]]

\* the verification call answered with a success status: the snapshot is
\* stored when the body carries one, the upstream is dialled, the client
\* listeners are registered
handleSessionOk(c) ==
    /\ pc[c] = "verifying"
    /\ \E body \in OkBodies :
         /\ feature' = IF body.has THEN body.realtimeVoiceChat ELSE feature
         /\ last' = Event("verifyOk", c, IF body.has THEN "snapshot" ELSE "none", NoArg)
    /\ sock' = connectToOpenAI(sock, c)
    /\ openAIClient' = O(c)
    /\ pc' = [pc EXCEPT ![c] = "listening"]
    /\ verdict' = [verdict EXCEPT ![c].res = "ok"]
    /\ UNCHANGED <<workerSocket, messageQueue, usageOpenAI, conversations,
                   inflight, inLog, nUp, dumpCalls, recorded, active, sendOnClosed>>

\* handleSessionNotOk with the upstream dialled before the status is looked at
handleSessionNotOkDialsFirst(c) ==
    /\ pc[c] = "verifying"
    /\ \E body \in FailBodies :
         LET clientError == IF body.typed
                            THEN [type |-> "clientError", errorType |-> body.type,
                                  message |-> body.message]
                            ELSE UnknownError
         IN  /\ sendMessageAndClose(connectToOpenAI(sock, c), W(c), clientError)
             /\ verdict' = [verdict EXCEPT ![c] = [res |-> "notOk", typed |-> body.typed,
                                                    type |-> body.type,
                                                    message |-> body.message]]
    /\ openAIClient' = O(c)
    /\ last' = Event("verifyNotOk", c, "", NoArg)
    /\ pc' = [pc EXCEPT ![c] = "failed"]
    /\ UNCHANGED <<workerSocket, messageQueue, usageOpenAI,
                   conversations, feature, inLog, nUp, recorded, active>>

\* the verification call answered with a non-success status
handleSessionNotOk(c) ==
    /\ pc[c] = "verifying"
    /\ \E body \in FailBodies :
         LET clientError == IF body.typed
                            THEN [type |-> "clientError", errorType |-> body.type,
                                  message |-> body.message]
                            ELSE UnknownError
         IN  /\ sendMessageAndClose(sock, W(c), clientError)
             /\ verdict' = [verdict EXCEPT ![c] = [res |-> "notOk", typed |-> body.typed,
                                                    type |-> body.type,
                                                    message |-> body.message]]
    /\ last' = Event("verifyNotOk", c, "", NoArg)
    /\ pc' = [pc EXCEPT ![c] = "failed"]
    /\ UNCHANGED <<workerSocket, openAIClient, messageQueue, usageOpenAI,
                   conversations, feature, inLog, nUp, recorded, active>>

\* the verification call (or reading its body) threw
handleSessionThrow(c) ==
    /\ pc[c] = "verifying"
    /\ sendMessageAndClose(sock, W(c), UnknownError)
    /\ verdict' = [verdict EXCEPT ![c].res = "throw"]
    /\ last' = Event("verifyThrow", c, "", NoArg)
    /\ pc' = [pc EXCEPT ![c] = "failed"]
    /\ UNCHANGED <<workerSocket, openAIClient, messageQueue, usageOpenAI,
                   conversations, feature, inLog, nUp, recorded, active>>


\* ------------------------------------------------------------- client side
ClientMsg(c, n, data) == [type |-> "client", c |-> c, id |-> n, data |-> data]

\* the readyState handleWorkerMessage and handleWorkerClose read
UpstreamState(s) == IF openAIClient = Null THEN "NONE" ELSE s[openAIClient].st

handleWorkerMessage(s, m) ==
    IF UpstreamState(s) # "OPEN"
    THEN /\ messageQueue' = Append(messageQueue, m)
         /\ UNCHANGED <<sock, inflight, dumpCalls, sendOnClosed>>
    ELSE IF isUsageLimitReached(usageOpenAI, feature)
         THEN /\ sendMessageAndClose(s, workerSocket, UsageLimitError)
              /\ UNCHANGED messageQueue
         ELSE /\ sock' = [s EXCEPT ![openAIClient] = SockSend(@, m, sendOnClosed)]
              /\ UNCHANGED <<messageQueue, inflight, dumpCalls, sendOnClosed>>

handleWorkerClose(s) ==
    IF UpstreamState(s) = "OPEN"
    THEN sendMessageAndClose(s, openAIClient, NoError)
    ELSE /\ sock' = s
         /\ UNCHANGED <<inflight, dumpCalls, sendOnClosed>>

\* a 'message' event of client socket c: the listener exists once
\* handleSession registered it, and the client may send until it has closed
WorkerMessage(c) ==
    /\ pc[c] = "listening"
    /\ sock[W(c)].st \in {"OPEN", "CLOSING"}
    /\ Len(inLog) < MaxClientMsgs
    /\ \E data \in Payloads :
         /\ handleWorkerMessage(sock, ClientMsg(c, Len(inLog) + 1, data))
         /\ inLog' = Append(inLog, [c |-> c, id |-> Len(inLog) + 1, data |-> data,
                                    ust |-> UpstreamState(sock)])
    /\ last' = Event("workerMessage", c, "", NoArg)
    /\ UNCHANGED <<pc, workerSocket, openAIClient, usageOpenAI, conversations,
                   feature, nUp, recorded, verdict, active>>

\* the 'close' event of client socket c: the client closed, or answered the
\* relay's close
WorkerClose(c) ==
    /\ pc[c] \in {"listening", "failed"}
    /\ sock[W(c)].st \in {"OPEN", "CLOSING"}
    /\ LET s == [sock EXCEPT ![W(c)].st = "CLOSED"]
       IN  IF pc[c] = "listening"
           THEN handleWorkerClose(s)
           ELSE sock' = s /\ UNCHANGED <<inflight, dumpCalls, sendOnClosed>>
    /\ last' = Event("workerClose", c, "", NoArg)
    /\ UNCHANGED <<pc, workerSocket, openAIClient, messageQueue, usageOpenAI,
                   conversations, feature, inLog, nUp, recorded, verdict, active>>

\* ------------------------------------------------------------- upstream side
\* the while loop of handleOpenAIOpen on socket sk and queue q: every entry
\* is shifted, the truthy ones are sent; a send that throws ends the loop
RECURSIVE Drain(_, _, _)
Drain(sk, q, rt) ==
    IF q = <<>>
    THEN [sk |-> sk, q |-> q]
    ELSE IF Truthy(Head(q).data)
         THEN IF SendThrows(sk.st, rt)
              THEN [sk |-> SockSend(sk, Head(q), rt), q |-> Tail(q)]
              ELSE Drain(SockSend(sk, Head(q), rt), Tail(q), rt)
         ELSE Drain(sk, Tail(q), rt)

handleOpenAIOpen(s) ==
    \E rt \in Runtimes :
        LET r == Drain(s[openAIClient], messageQueue, rt)
        IN  /\ sock' = [s EXCEPT ![openAIClient] = r.sk]
            /\ messageQueue' = r.q
            /\ sendOnClosed' = IF \E i \in DOMAIN messageQueue : Truthy(messageQueue[i].data)
                               THEN Observed(s[openAIClient].st, rt)
                               ELSE sendOnClosed

\* the 'open' event of upstream socket c
OpenAIOpen(c) ==
    /\ sock[O(c)].st = "CONNECTING"
    /\ handleOpenAIOpen([sock EXCEPT ![O(c)].st = "OPEN", ![O(c)].wasOpen = TRUE])
    /\ active' = IF workerSocket # Null /\ sock[workerSocket].st = "OPEN"
                  THEN active \cup {c} ELSE active
    /\ last' = Event("openAIOpen", c, "", NoArg)
    /\ UNCHANGED <<pc, workerSocket, openAIClient, usageOpenAI, conversations,
                   feature, inflight, inLog, nUp, dumpCalls, recorded, verdict>>

\* Classify with the assistant transcript filed under the role of the user
ClassifyMislabels(msg) ==
    CASE msg.kind = "done" -> [eff |-> "usage", d |-> msg.d, role |-> "", t |-> ""]
      [] msg.kind = "done_emptyusage" -> [eff |-> "usage", d |-> UndefDelta, role |-> "", t |-> ""]
      [] msg.kind = "user" -> [eff |-> "transcript", d |-> NoDelta, role |-> "user", t |-> msg.t]
      [] msg.kind = "user_notranscript" ->
            [eff |-> "transcript", d |-> NoDelta, role |-> "user", t |-> Undefined]
      [] msg.kind = "assistant" ->
            [eff |-> "transcript", d |-> NoDelta, role |-> "user", t |-> msg.t]
      [] msg.kind \in {"unparseable", "done_noresponse"} ->
            [eff |-> "throw", d |-> NoDelta, role |-> "", t |-> ""]
      [] OTHER -> [eff |-> "none", d |-> NoDelta, role |-> "", t |-> ""]

\* JSON.parse and the switch of handleOpenAIMessage: what the message does
\* once it is forwarded
Classify(msg) ==
    CASE msg.kind = "done" -> [eff |-> "usage", d |-> msg.d, role |-> "", t |-> ""]
      [] msg.kind = "done_emptyusage" -> [eff |-> "usage", d |-> UndefDelta, role |-> "", t |-> ""]
      [] msg.kind = "user" -> [eff |-> "transcript", d |-> NoDelta, role |-> "user", t |-> msg.t]
      [] msg.kind = "user_notranscript" ->
            [eff |-> "transcript", d |-> NoDelta, role |-> "user", t |-> Undefined]
      [] msg.kind = "assistant" ->
            [eff |-> "transcript", d |-> NoDelta, role |-> "assistant", t |-> msg.t]
      [] msg.kind \in {"unparseable", "done_noresponse"} ->
            [eff |-> "throw", d |-> NoDelta, role |-> "", t |-> ""]
      [] OTHER -> [eff |-> "none", d |-> NoDelta, role |-> "", t |-> ""]

handleOpenAIMessage(s, msg) ==
    IF workerSocket # Null /\ s[workerSocket].st = "OPEN"
    THEN LET e == Classify(msg)
         IN  /\ sock' = [s EXCEPT ![workerSocket] = SockSend(@, msg, sendOnClosed)]
             /\ usageOpenAI' = IF e.eff = "usage"
                               THEN updateUsage(usageOpenAI, feature, e.d)
                               ELSE usageOpenAI
             /\ recorded' = IF e.eff = "usage"
                            THEN recorded (+) SetToBag({e.d})
                            ELSE recorded
             /\ conversations' = IF e.eff = "transcript"
                                 THEN Append(conversations, [role |-> e.role, transcript |-> e.t])
                                 ELSE conversations
    ELSE /\ sock' = s
         /\ UNCHANGED <<usageOpenAI, recorded, conversations>>

\* a 'message' event of upstream socket c
OpenAIMessage(c) ==
    /\ sock[O(c)].st \in {"OPEN", "CLOSING"}
    /\ nUp < MaxUpMsgs
    /\ \E msg \in UpMsgs :
         /\ handleOpenAIMessage(sock, msg)
         /\ last' = Event("openAIMessage", c, msg.kind, msg)
    /\ nUp' = nUp + 1
    /\ UNCHANGED <<pc, workerSocket, openAIClient, messageQueue, feature,
                   inflight, inLog, dumpCalls, verdict, active, sendOnClosed>>

handleOpenAIClose(s) ==
    IF workerSocket # Null /\ s[workerSocket].st = "OPEN"
    THEN sendMessageAndClose(s, workerSocket, NoError)
    ELSE /\ sock' = s
         /\ UNCHANGED <<inflight, dumpCalls, sendOnClosed>>

\* the 'close' event of upstream socket c: the dial failed, the upstream
\* closed, or it answered the relay's close
OpenAIClose(c) ==
    /\ sock[O(c)].st \in {"CONNECTING", "OPEN", "CLOSING"}
    /\ handleOpenAIClose([sock EXCEPT ![O(c)].st = "CLOSED"])
    /\ last' = Event("openAIClose", c, "", NoArg)
    /\ UNCHANGED <<pc, workerSocket, openAIClient, messageQueue, usageOpenAI,
                   conversations, feature, inLog, nUp, recorded, verdict, active>>

\* ------------------------------------------------------------- usage flush
Remove(q, i) == SubSeq(q, 1, i - 1) \o SubSeq(q, i + 1, Len(q))

\* dumpUsageToArcane after its await, the response being ok: the reset
dumpUsageOk ==
    /\ \E i \in 1 .. Len(inflight) : inflight' = Remove(inflight, i)
    /\ usageOpenAI' = ZeroUsage
    /\ recorded' = EmptyBag
    /\ last' = Event("flushOk", 0, IF usageOpenAI = ZeroUsage THEN "zero" ELSE "nonzero", NoArg)
    /\ UNCHANGED <<pc, sock, workerSocket, openAIClient, messageQueue,
                   conversations, feature, inLog, nUp, dumpCalls, verdict, active, sendOnClosed>>

\* dumpUsageNotOk with the reset done whatever the status
dumpUsageNotOkResets ==
    /\ \E i \in 1 .. Len(inflight) : inflight' = Remove(inflight, i)
    /\ usageOpenAI' = ZeroUsage
    /\ recorded' = EmptyBag
    /\ last' = Event("flushNotOk", 0, "", NoArg)
    /\ UNCHANGED <<pc, sock, workerSocket, openAIClient, messageQueue,
                   conversations, feature, inLog, nUp, dumpCalls, verdict, active,
                   sendOnClosed>>

\* the response being not ok: nothing
dumpUsageNotOk ==
    /\ \E i \in 1 .. Len(inflight) : inflight' = Remove(inflight, i)
    /\ last' = Event("flushNotOk", 0, "", NoArg)
    /\ UNCHANGED <<pc, sock, workerSocket, openAIClient, messageQueue, usageOpenAI,
                   conversations, feature, inLog, nUp, dumpCalls, recorded,
                   verdict, active, sendOnClosed>>

\* the fetch threw: the catch logs it
dumpUsageThrow ==
    /\ \E i \in 1 .. Len(inflight) : inflight' = Remove(inflight, i)
    /\ last' = Event("flushThrow", 0, "", NoArg)
    /\ UNCHANGED <<pc, sock, workerSocket, openAIClient, messageQueue, usageOpenAI,
                   conversations, feature, inLog, nUp, dumpCalls, recorded,
                   verdict, active, sendOnClosed>>

\* ------------------------------------------------------------- specification
\* one upgrade request reaches the instance
Fetch == handleSessionStart(1)

VerifyOk == \E c \in Conns : handleSessionOk(c)

VerifyNotOk == \E c \in Conns : handleSessionNotOk(c)

VerifyThrow == \E c \in Conns : handleSessionThrow(c)

ClientMessage == \E c \in Conns : WorkerMessage(c)

ClientClose == \E c \in Conns : WorkerClose(c)

UpstreamOpen == \E c \in Conns : OpenAIOpen(c)

UpstreamMessage == \E c \in Conns : OpenAIMessage(c)

UpstreamClose == \E c \in Conns : OpenAIClose(c)

Next ==
    \/ Fetch
    \/ VerifyOk
    \/ VerifyNotOk
    \/ VerifyThrow
    \/ ClientMessage
    \/ ClientClose
    \/ UpstreamOpen
    \/ UpstreamMessage
    \/ UpstreamClose
    \/ dumpUsageOk
    \/ dumpUsageNotOk
    \/ dumpUsageThrow

Spec == Init /\ [][Next]_vars

\* the runs on a runtime whose send() throws on a closing or closed socket
Throwing == sendOnClosed' # "discard"

NextThrow ==
    \/ Fetch /\ Throwing
    \/ VerifyOk /\ Throwing
    \/ VerifyNotOk /\ Throwing
    \/ VerifyThrow /\ Throwing
    \/ ClientMessage /\ Throwing
    \/ ClientClose /\ Throwing
    \/ UpstreamOpen /\ Throwing
    \/ UpstreamMessage /\ Throwing
    \/ UpstreamClose /\ Throwing
    \/ dumpUsageOk /\ Throwing
    \/ dumpUsageNotOk /\ Throwing
    \/ dumpUsageThrow /\ Throwing

SpecThrow == Init /\ [][NextThrow]_vars


\* a further upgrade request carrying the same token reaches the same
\* instance (the Worker routes by idFromName of the token), at any moment
FetchAgain == \E c \in Conns : handleSessionStart(c)

\* the runs with reconnects are explored with the messages of both directions
\* counted together
Budget == Len(inLog') + nUp' <= MaxUpMsgs

NextReconnect ==
    \/ FetchAgain /\ Budget
    \/ VerifyOk /\ Budget
    \/ VerifyNotOk /\ Budget
    \/ VerifyThrow /\ Budget
    \/ ClientMessage /\ Budget
    \/ ClientClose /\ Budget
    \/ UpstreamOpen /\ Budget
    \/ UpstreamMessage /\ Budget
    \/ UpstreamClose /\ Budget
    \/ dumpUsageOk /\ Budget
    \/ dumpUsageNotOk /\ Budget
    \/ dumpUsageThrow /\ Budget

SpecReconnect == Init /\ [][NextReconnect]_vars

\* the events a peer owes the relay: the close handshake the relay started
\* is answered, a dial resolves, an issued request returns
Fairness ==
    /\ WF_vars(\E c \in Conns : sock[W(c)].st = "CLOSING" /\ WorkerClose(c))
    /\ WF_vars(\E c \in Conns : sock[O(c)].st = "CLOSING" /\ OpenAIClose(c))
    /\ WF_vars(\E c \in Conns : sock[O(c)].st = "CONNECTING" /\ (OpenAIOpen(c) \/ OpenAIClose(c)))
    /\ WF_vars(VerifyOk \/ VerifyNotOk \/ VerifyThrow)
    /\ WF_vars(dumpUsageOk \/ dumpUsageNotOk \/ dumpUsageThrow)

FairSpec == Spec /\ Fairness

\* ------------------------------------------------------------- observations
\* the calls of a kind made on a socket, in order
SendsOn(id) == SelectSeq(sock[id].log, LAMBDA e : e.op = "send")

ClosesOn(id) == SelectSeq(sock[id].log, LAMBDA e : e.op = "close")

\* the error frames a socket accepted (the send did not throw)
ErrorFramesOn(id) ==
    SelectSeq(sock[id].log, LAMBDA e : e.op = "send" /\ ~e.threw /\ e.data.type = "error")

\* the client messages sent on upstream socket c, in order
ClientSendsOn(c) ==
    SelectSeq(sock[O(c)].log, LAMBDA e : e.op = "send" /\ ~e.threw /\ e.data.type = "client")

\* the client messages of connection c that arrived while the upstream was
\* still connecting
Pending(c) == SelectSeq(inLog, LAMBDA m : m.c = c /\ m.ust = "CONNECTING")

\* the quota breach was signalled on client socket c
Breached(c) ==
    \E i \in DOMAIN sock[W(c)].log :
        /\ sock[W(c)].log[i].op = "send"
        /\ sock[W(c)].log[i].data = ErrorFrame(UsageLimitError)

RECURSIVE BagSum(_, _)
BagSum(b, f) ==
    IF BagToSet(b) = {}
    THEN 0
    ELSE LET d == CHOOSE x \in BagToSet(b) : TRUE
             rest == [x \in BagToSet(b) \ {d} |-> b[x]]
         IN  Add(IF d[f] = NaN THEN NaN ELSE d[f] * b[d], BagSum(rest, f))

\* a < b of the language: false when either side is NaN
Lt(a, b) == a # NaN /\ b # NaN /\ a < b

\* ------------------------------------------------------------- claims

\* C1: once the upstream of a connection has reported ready, the client
\* messages that arrived while it was connecting have all been sent upstream,
\* in arrival order and verbatim, ahead of every later client message.
C1_BufferingOrder ==
    \A c \in Conns :
        sock[O(c)].wasOpen =>
            LET pre == Pending(c)
                sent == ClientSendsOn(c)
            IN  /\ Len(sent) >= Len(pre)
                /\ \A i \in 1 .. Len(pre) :
                       /\ sent[i].data.id = pre[i].id
                       /\ sent[i].data.data = pre[i].data

\* the part of C1 that the code keeps: the client messages sent upstream
\* are in arrival order (none overtakes another)
C1_NoOvertaking ==
    \A c \in Conns :
        LET sent == ClientSendsOn(c)
        IN  \A i, j \in 1 .. Len(sent) : i < j => sent[i].data.id < sent[j].data.id

\* C2: for a session that reached ACTIVE, dumpUsageToArcane is invoked at
\* most once, and exactly once when both sockets are closed.
C2_OneFlushAttempt ==
    \A c \in active :
        /\ dumpCalls <= 1
        /\ (sock[W(c)].st = "CLOSED" /\ sock[O(c)].st = "CLOSED") => dumpCalls = 1

\* C3: close() is called at most once on the client socket and at most once
\* on the upstream socket, at most one error frame is sent to the client, and
\* a trigger that fires after a socket's close() is a no-op on that socket:
\* close() is the last call the relay makes on it.
C3_IdempotentClose ==
    \A c \in Conns :
        /\ Len(ClosesOn(W(c))) <= 1
        /\ Len(ClosesOn(O(c))) <= 1
        /\ Len(ErrorFramesOn(W(c))) <= 1
        /\ \A id \in {W(c), O(c)} : \A i \in DOMAIN sock[id].log :
               sock[id].log[i].op = "close" => i = Len(sock[id].log)

\* C4: a client message that arrives with the upstream open and the quota
\* reached is not sent upstream, the client is sent a UsageLimitReached error
\* frame and its socket starts closing; and once a breach was signalled no
\* client message is sent upstream any more.
C4_QuotaEnforcement ==
    [][\A c \in Conns :
         /\ (/\ last'.act = "workerMessage" /\ last'.c = c
             /\ UpstreamState(sock) = "OPEN"
             /\ isUsageLimitReached(usageOpenAI, feature))
            => /\ ClientSendsOn(c)' = ClientSendsOn(c)
               /\ Len(SendsOn(W(c)))' = Len(SendsOn(W(c))) + 1
               /\ Breached(c)'
               /\ sock'[W(c)].st \in {"CLOSING", "CLOSED"}
         /\ Breached(c) => ClientSendsOn(c)' = ClientSendsOn(c)]_vars

\* C5: after a verification call that returned a non-success status or
\* threw, the client socket of that connection has been sent exactly one
\* error frame, carrying the failure body's type and message when it has
\* them, and was then closed; no upstream socket exists for the connection
\* and none of its messages is sent upstream.
C5_VerificationFailure ==
    \A c \in Conns :
        verdict[c].res \in {"notOk", "throw"} =>
            LET v == verdict[c]
                e == IF v.res = "notOk" /\ v.typed
                     THEN [type |-> "error", errorType |-> v.type, message |-> v.message]
                     ELSE [type |-> "error", errorType |-> "Unknown",
                           message |-> "Unexpected Error occured"]
            IN  /\ sock[W(c)].log = <<Call("send", "OPEN", FALSE, e),
                                     Call("close", "OPEN", FALSE, NoError)>>
                /\ sock[W(c)].st \in {"CLOSING", "CLOSED"}
                /\ sock[O(c)] = NoSocket
                /\ openAIClient # O(c)
                /\ \A b \in Conns : \A i \in DOMAIN sock[O(b)].log :
                       sock[O(b)].log[i].data.type = "client" => sock[O(b)].log[i].data.c # c

C5_Witness ==
    /\ verdict[1].res = "notOk" /\ verdict[1].typed
    /\ sock[W(1)].st = "CLOSED"

\* C6: every close() the relay calls on a client socket directly follows the
\* send of an error frame on that socket.
C6_ErrorFrameBeforeClose ==
    \A c \in Conns :
        \A i \in DOMAIN sock[W(c)].log :
            sock[W(c)].log[i].op = "close" =>
                /\ i > 1
                /\ sock[W(c)].log[i - 1].op = "send"
                /\ sock[W(c)].log[i - 1].data.type = "error"

\* a termination trigger has fired for connection c
Triggered(c) ==
    \/ pc[c] = "failed"
    \/ sock[W(c)].st \in {"CLOSING", "CLOSED"}
    \/ sock[O(c)].st \in {"CLOSING", "CLOSED"}

\* the client socket and the upstream socket, if one was opened, are closed
TornDown(c) ==
    /\ sock[W(c)].st = "CLOSED"
    /\ sock[O(c)].st \in {"NONE", "CLOSED"}

\* C7: under fair delivery of socket events, once a termination trigger has
\* fired the session eventually has both of its sockets closed.
C7_EventualTeardown == \A c \in Conns : Triggered(c) ~> TornDown(c)

\* C8: the token counters are the sums of the deltas taken since the last
\* reset, whatever their order, and right after a delta is taken each cost
\* is the token sum times the rate of the entitlement snapshot.
C8_UsageAccumulation ==
    /\ usageOpenAI.total_tokens = BagSum(recorded, "total_tokens")
    /\ usageOpenAI.input_tokens = BagSum(recorded, "input_tokens")
    /\ usageOpenAI.output_tokens = BagSum(recorded, "output_tokens")
    /\ (last.act = "openAIMessage" /\ Classify(last.arg).eff = "usage"
        /\ recorded # EmptyBag)
       => /\ usageOpenAI.cost.input =
                Mul(BagSum(recorded, "input_tokens"), feature.costPerToken.input)
          /\ usageOpenAI.cost.output =
                Mul(BagSum(recorded, "output_tokens"), feature.costPerToken.output)

C8_Witness ==
    /\ BagCardinality(recorded) = 2
    /\ Cardinality(BagToSet(recorded)) = 2
    /\ usageOpenAI.input_tokens = 5
    /\ usageOpenAI.cost.output = 600

\* C9: an acknowledged flush resets every usage counter to zero, a flush
\* that returns a non-success status or throws leaves every counter as it
\* was, and no other step decreases a counter.
C9_FlushOutcome ==
    [][/\ last'.act = "flushOk" => usageOpenAI' = ZeroUsage
       /\ last'.act \in {"flushNotOk", "flushThrow"} => usageOpenAI' = usageOpenAI
       /\ last'.act # "flushOk" =>
            /\ ~Lt(usageOpenAI'.total_tokens, usageOpenAI.total_tokens)
            /\ ~Lt(usageOpenAI'.input_tokens, usageOpenAI.input_tokens)
            /\ ~Lt(usageOpenAI'.output_tokens, usageOpenAI.output_tokens)
            /\ ~Lt(usageOpenAI'.cost.input, usageOpenAI.cost.input)
            /\ ~Lt(usageOpenAI'.cost.output, usageOpenAI.cost.output)]_vars

C9_Witness ==
    /\ last.act = "flushOk" /\ last.kind = "nonzero"
    /\ usageOpenAI = ZeroUsage

\* C10: an upstream message that arrives while the client socket is open is
\* forwarded to the client unchanged, and one that cannot be parsed, or whose
\* recognised kind lacks the expected fields, changes neither the usage
\* counters nor the transcript log.
C10_ClassificationIsolation ==
    [][last'.act = "openAIMessage" =>
         /\ (workerSocket # Null /\ sock[workerSocket].st = "OPEN") =>
                sock'[workerSocket].log =
                    Append(sock[workerSocket].log, Call("send", "OPEN", FALSE, last'.arg))
         /\ last'.kind \in {"unparseable", "done_noresponse", "done_emptyusage",
                            "user_notranscript"} =>
                /\ usageOpenAI' = usageOpenAI
                /\ conversations' = conversations]_vars

\* C11: once the upstream of a connection has reported ready, every client
\* message that arrived while it was connecting, whatever its payload, has
\* been sent upstream exactly once and verbatim, and the drain leaves the
\* queue empty.
C11_NoPendingLoss ==
    \A c \in Conns :
        sock[O(c)].wasOpen =>
            LET pre == Pending(c)
                sent == ClientSendsOn(c)
            IN  /\ \A i \in DOMAIN pre :
                       Cardinality({j \in DOMAIN sent :
                                       /\ sent[j].data.id = pre[i].id
                                       /\ sent[j].data.data = pre[i].data}) = 1
                /\ (last.act = "openAIOpen" /\ last.c = c) => messageQueue = <<>>

\* C12: at most one client socket and at most one upstream socket of the
\* instance are open at any time.
C12_SingleSocketPerSide ==
    /\ Cardinality({c \in Conns : sock[W(c)].st = "OPEN"}) <= 1
    /\ Cardinality({c \in Conns : sock[O(c)].st = "OPEN"}) <= 1

\* C13: in every state each stored cost is the token counter times the rate
\* of the entitlement snapshot the instance holds.
C13_CostMatchesTokens ==
    /\ usageOpenAI.cost.input =
           Mul(usageOpenAI.input_tokens, feature.costPerToken.input)
    /\ usageOpenAI.cost.output =
           Mul(usageOpenAI.output_tokens, feature.costPerToken.output)

\* C14: the step of sendMessageAndClose that starts the usage flush also
\* calls close() on its target socket; a socket that is closing or closed
\* stays so; and the outcome of a flush, whatever it is, touches no socket
\* and issues no further request (a request is issued by the close routine
\* only).
C14_FlushDoesNotGateClose ==
    [][/\ dumpCalls' = dumpCalls + 1 =>
            \E id \in SockIds :
                /\ Len(ClosesOn(id))' = Len(ClosesOn(id)) + 1
                /\ sock'[id].log[Len(sock'[id].log)].op = "close"
                /\ sock'[id].st \in {"CLOSING", "CLOSED"}
       /\ \A id \in SockIds :
            sock[id].st \in {"CLOSING", "CLOSED"} => sock'[id].st \in {"CLOSING", "CLOSED"}
       /\ Len(inflight') > Len(inflight) => dumpCalls' = dumpCalls + 1
       /\ last'.act \in {"flushOk", "flushNotOk", "flushThrow"} =>
            /\ sock' = sock
            /\ Len(inflight') = Len(inflight) - 1
            /\ dumpCalls' = dumpCalls]_vars

\* a flush was refused and is not retried, and a second one never completed,
\* with both sockets closed
C14_Witness ==
    /\ last.act = "flushNotOk"
    /\ Lt(0, usageOpenAI.total_tokens)
    /\ inflight # <<>>
    /\ sock[W(1)].st = "CLOSED"
    /\ sock[O(1)].st = "CLOSED"

\* C15: a flush request is issued only from a state whose total_tokens is
\* greater than zero, and a call of dumpUsageToArcane with total_tokens zero
\* issues no request and leaves the counters as they were.
C15_FlushOnlyWithUsage ==
    [][/\ Len(inflight') > Len(inflight) => Lt(0, usageOpenAI.total_tokens)
       /\ (dumpCalls' = dumpCalls + 1 /\ usageOpenAI.total_tokens = 0) =>
            /\ inflight' = inflight
            /\ usageOpenAI' = usageOpenAI]_vars

\* the transcript log grew by exactly one entry of the given role
AppendedOne(role) ==
    /\ Len(conversations') = Len(conversations) + 1
    /\ SubSeq(conversations', 1, Len(conversations)) = conversations
    /\ conversations'[Len(conversations')].role = role

\* C16: handling one upstream message changes at most one of usage and
\* transcript: response.done leaves the transcript alone, the user
\* transcription leaves usage alone and appends at most one entry of role
\* user, the assistant transcription likewise with role assistant, every
\* other kind changes neither; and in every step the transcript log only
\* grows at its end, and only by an upstream message.
C16_ClassifierFrame ==
    [][/\ last'.act = "openAIMessage" =>
            LET k == last'.kind
            IN  /\ k \in {"done", "done_noresponse", "done_emptyusage"} =>
                       conversations' = conversations
                /\ k \in {"user", "user_notranscript"} =>
                       /\ usageOpenAI' = usageOpenAI
                       /\ conversations' = conversations \/ AppendedOne("user")
                /\ k = "assistant" =>
                       /\ usageOpenAI' = usageOpenAI
                       /\ conversations' = conversations \/ AppendedOne("assistant")
                /\ k \in {"unparseable", "other"} =>
                       /\ usageOpenAI' = usageOpenAI
                       /\ conversations' = conversations
       /\ last'.act # "openAIMessage" => conversations' = conversations
       /\ Len(conversations') >= Len(conversations)
       /\ SubSeq(conversations', 1, Len(conversations)) = conversations]_vars

C16_Witness ==
    conversations = <<[role |-> "user", transcript |-> "hi"],
                      [role |-> "assistant", transcript |-> "hi"]>>

\* C17: the tokens of the acknowledged flush requests plus the token counters
\* always add up to the tokens recorded.  updateUsage adds a delta to the
\* counters and to the recorded tokens alike, and a refused or failed flush
\* changes neither side, so the sum is kept exactly when every acknowledged
\* request carries the very counters that its reset erases.
C17_ReportedOnce ==
    [][last'.act = "flushOk" =>
         \E i \in 1 .. Len(inflight) :
             /\ inflight' = Remove(inflight, i)
             /\ inflight[i].input_tokens = usageOpenAI.input_tokens
             /\ inflight[i].output_tokens = usageOpenAI.output_tokens]_vars

\* the sends that put a message of client c on an upstream socket
RelayedFor(c) ==
    {<<b, i>> \in Conns \X (1 .. (MaxClientMsgs + 1)) :
        /\ i \in DOMAIN sock[O(b)].log
        /\ sock[O(b)].log[i].op = "send"
        /\ ~sock[O(b)].log[i].threw
        /\ sock[O(b)].log[i].data.type = "client"
        /\ sock[O(b)].log[i].data.c = c}

\* C18: once the client socket of a connection has closed, no message of
\* that client is sent upstream any more, neither forwarded nor drained from
\* the queue.
C18_NothingForDepartedClient ==
    [][\A c \in Conns :
         sock[W(c)].st = "CLOSED" => RelayedFor(c)' = RelayedFor(c)]_vars

\* C19: every send() the relay calls on a client or upstream socket finds
\* that socket in the OPEN state.
C19_SendOnlyWhenOpen ==
    \A id \in SockIds : \A i \in DOMAIN sock[id].log :
        sock[id].log[i].op = "send" => sock[id].log[i].st = "OPEN"

\* C20: no message of a client is sent upstream, forwarded or drained, in a
\* step that starts with the usage limit reached.
C20_QuotaOnEverySend ==
    [][isUsageLimitReached(usageOpenAI, feature) =>
         \A c \in Conns : RelayedFor(c)' = RelayedFor(c)]_vars

=============================================================================
